---- MODULE Spec2Model ----
(***************************************************************************)
(* Model of streamlit_app.py: the cross-market dashboard.                  *)
(*                                                                         *)
(* A frame is a record [columns, rows]: columns is the sequence of column  *)
(* names, rows a sequence of records mapping each column to a cell.  A     *)
(* cell is an integer: a price in 0..MaxPrice, a date as a day number      *)
(* (1..MaxDate) or, once pd.to_datetime has run, a timestamp in hours; NA  *)
(* is the missing marker (SQL NULL as read by pandas, and pd.NA).          *)
(***************************************************************************)
EXTENDS Integers, Sequences, FiniteSets, TLC

VARIABLES
    pc,          \* where the script run stands: idle, done, error, ...
    store,       \* the rows the store holds for the query, in date order
    page,        \* the module picked in the sidebar
    d_range,     \* the dates picked in "Select Date Range"
    order,       \* the date order the executed query asks the store for
    fault,       \* what the store did: none, connect (refused), query (raised)
    raw,         \* the frame pd.read_sql returned
    synced,      \* the Synchronizer's output
    df,          \* the frame the handler ends with
    again,       \* the Synchronizer applied to its own output
    rendered,    \* a table or chart was handed to the page
    success,     \* st.success was shown
    open,        \* store connections opened and not closed
    peak,        \* most connections open at once during the last handler
    cat,         \* "Select Topic:"
    selected_q,  \* "Select Query:"
    sql          \* the query text looked up or executed

vars == <<pc, store, page, d_range, order, fault, raw, synced, df, again,
          rendered, success, open, peak, cat, selected_q, sql>>

\* ---------------------------------------------------------------- bounds
MaxRows == 3
MaxPrice == 2
MaxDate == 3
MaxOpen == 2
FailRows == 1

\* ----------------------------------------------------------------- cells
\* pd.NA / NULL: the missing marker, outside the range of prices and dates.
NA == -1

NoFrame == [columns |-> <<>>, rows |-> <<>>]

Cells == {NA} \cup (0..MaxPrice)

\* ---------------------------------------------------------- Synchronizer
\* df.replace(0, pd.NA): every cell equal to zero becomes missing.
replace(frame) ==
    [frame EXCEPT !.rows =
        [i \in 1..Len(frame.rows) |->
            [c \in DOMAIN frame.rows[i] |->
                IF frame.rows[i][c] = 0 THEN NA ELSE frame.rows[i][c]]]]

\* .ffill(): top to bottom, a missing cell takes the cell above it in the
\* same column (already filled); the first row has nothing above it.
RECURSIVE ffillRows(_)
ffillRows(rows) ==
    IF rows = <<>> THEN <<>>
    ELSE LET n    == Len(rows)
             prev == ffillRows(SubSeq(rows, 1, n - 1))
             last == rows[n]
         IN  Append(prev,
                    [c \in DOMAIN last |->
                        IF last[c] = NA /\ n > 1 THEN prev[n - 1][c]
                        ELSE last[c]])

\* Mutant: .bfill(), the fill runs bottom to top.
RECURSIVE bfillRows(_)
bfillRows(rows) ==
    IF rows = <<>> THEN <<>>
    ELSE LET next  == bfillRows(Tail(rows))
             first == Head(rows)
         IN  <<[c \in DOMAIN first |->
                    IF first[c] = NA /\ next # <<>> THEN next[1][c]
                    ELSE first[c]]>> \o next

ffill_backward(frame) == [frame EXCEPT !.rows = bfillRows(frame.rows)]

\* Mutant: .ffill(limit=1), a value is carried over one row only.
ffill_limit1(frame) ==
    [frame EXCEPT !.rows =
        [i \in 1..Len(frame.rows) |->
            [c \in DOMAIN frame.rows[i] |->
                IF frame.rows[i][c] = NA /\ i > 1
                THEN frame.rows[i - 1][c]
                ELSE frame.rows[i][c]]]]

\* Mutant: .dropna(), rows holding a missing cell are dropped.
ffill_dropna(frame) ==
    [frame EXCEPT !.rows =
        SelectSeq(frame.rows, LAMBDA r : \A c \in DOMAIN r : r[c] # NA)]

ffill(frame) == [frame EXCEPT !.rows = ffillRows(frame.rows)]

\* .infer_objects(copy=False): re-infers column dtypes, values untouched.
infer_objects(frame) == frame

\* Mutant: the trailing .fillna(0) is left out.
fillna_missing(frame) == frame

\* .fillna(0): every cell still missing becomes zero.
fillna(frame) ==
    [frame EXCEPT !.rows =
        [i \in 1..Len(frame.rows) |->
            [c \in DOMAIN frame.rows[i] |->
                IF frame.rows[i][c] = NA THEN 0 ELSE frame.rows[i][c]]]]

\* df.replace(0, pd.NA).ffill().infer_objects(copy=False).fillna(0)
Synchronizer(frame) == fillna(infer_objects(ffill(replace(frame))))

\* ------------------------------------------------- the Synchronizer alone
\* Frames handed to the Synchronizer: one row per consecutive day, two
\* price columns, every cell a price, a zero or missing.
SyncColumns == <<"Entry_Date", "BTC_INR", "Oil_INR">>

SyncFrame(n, f) ==
    [columns |-> SyncColumns,
     rows    |-> [i \in 1..n |-> [Entry_Date |-> i,
                                   BTC_INR    |-> f[i][1],
                                   Oil_INR    |-> f[i][2]]]]

\* Values of the variables a specification does not use.
Unused ==
    /\ store = <<>>
    /\ page = "none"
    /\ d_range = <<>>
    /\ order = "NONE"
    /\ fault = "none"
    /\ df = NoFrame
    /\ rendered = FALSE
    /\ success = FALSE
    /\ open = 0
    /\ peak = 0
    /\ cat = "none"
    /\ selected_q = "none"
    /\ sql = "none"

InitSync ==
    /\ pc = "input"
    /\ \E n \in 0..MaxRows : \E f \in [1..n -> Cells \X Cells] :
          raw = SyncFrame(n, f)
    /\ synced = NoFrame
    /\ again = NoFrame
    /\ Unused

\* res_df = res_df.replace(0, pd.NA).ffill().infer_objects(copy=False).fillna(0)
ApplySynchronizer ==
    /\ pc = "input"
    /\ synced' = Synchronizer(raw)
    /\ pc' = "synced"
    /\ UNCHANGED <<store, page, d_range, order, fault, raw, df, again, rendered,
                   success, open, peak, cat, selected_q, sql>>

\* The same expression applied to its own output.
ApplyAgain ==
    /\ pc = "synced"
    /\ again' = Synchronizer(synced)
    /\ pc' = "again"
    /\ UNCHANGED <<store, page, d_range, order, fault, raw, synced, df, rendered,
                   success, open, peak, cat, selected_q, sql>>

NextSync == ApplySynchronizer \/ ApplyAgain

SpecSync == InitSync /\ [][NextSync]_vars

\* ------------------------------------------------------ claims C1 .. C3
\* A cell the specification calls missing: zero or null.
IsMissing(x) == x = 0 \/ x = NA

\* The rows before row i whose cell in column c is not missing.
Observed(rows, c, i) == {j \in 1..(i - 1) : ~IsMissing(rows[j][c])}

Nearest(S) == CHOOSE j \in S : \A k \in S : k <= j

\* C1: in a date-ascending frame, a missing cell (zero or null) with a
\* non-missing cell above it in its column comes out as the nearest such
\* cell of that same column, and a non-missing cell comes out unchanged,
\* whatever the other columns hold.
C1_FillRule ==
    pc \in {"synced", "again"} =>
        /\ Len(synced.rows) = Len(raw.rows)
        /\ \A i \in 1..Len(raw.rows) : \A c \in DOMAIN raw.rows[i] :
              LET x == raw.rows[i][c]
                  S == Observed(raw.rows, c, i)
              IN  /\ ~IsMissing(x) => synced.rows[i][c] = x
                  /\ (IsMissing(x) /\ S # {}) =>
                        synced.rows[i][c] = raw.rows[Nearest(S)][c]

\* BTC_INR [1, 2, 0] becomes [1, 2, 2] while Oil_INR [NA, 0, 1] does not.
C1_Witness ==
    /\ pc = "synced"
    /\ Len(raw.rows) = 3
    /\ raw.rows[1].BTC_INR = 1 /\ raw.rows[2].BTC_INR = 2
    /\ raw.rows[3].BTC_INR = 0 /\ synced.rows[3].BTC_INR = 2
    /\ raw.rows[1].Oil_INR = NA /\ raw.rows[2].Oil_INR = 0
    /\ raw.rows[3].Oil_INR = 1 /\ synced.rows[2].Oil_INR = 0

\* C2: the Synchronizer's output holds no missing marker, and an output
\* cell is zero exactly when every input cell of its column from the first
\* row down to its own row is zero or missing.
C2_ZeroSentinel ==
    pc \in {"synced", "again"} =>
        /\ Len(synced.rows) = Len(raw.rows)
        /\ \A i \in 1..Len(raw.rows) : \A c \in DOMAIN raw.rows[i] :
              /\ synced.rows[i][c] # NA
              /\ synced.rows[i][c] = 0 <=>
                    \A j \in 1..i : IsMissing(raw.rows[j][c])

\* The leading gap [0, NA, 2] comes out as [0, 0, 2].
C2_Witness ==
    /\ pc = "synced"
    /\ Len(raw.rows) = 3
    /\ raw.rows[1].BTC_INR = 0 /\ raw.rows[2].BTC_INR = NA
    /\ raw.rows[3].BTC_INR = 2
    /\ synced.rows[1].BTC_INR = 0 /\ synced.rows[2].BTC_INR = 0
    /\ synced.rows[3].BTC_INR = 2

\* C3: the Synchronizer applied to its own output gives that output back,
\* cell for cell.
C3_Idempotent == pc = "again" => again = synced

\* A frame the first application changed ([1, 0, NA] to [1, 1, 1]) and the
\* second left alone.
C3_Witness ==
    /\ pc = "again"
    /\ Len(raw.rows) = 3
    /\ raw.rows[1].BTC_INR = 1 /\ raw.rows[2].BTC_INR = 0
    /\ raw.rows[3].BTC_INR = NA
    /\ synced.rows[3].BTC_INR = 1
    /\ again.rows[3].BTC_INR = 1

\* ---------------------------------------------------------- Query Catalog
query_map ==
    ("1. Crypto Attributes" :>
        (   "Q1: Top 3 by Market Cap" :> "SELECT name, symbol, market_cap AS Market_Cap_INR FROM cryptocurrencies ORDER BY market_cap DESC LIMIT 3"
         @@ "Q2: Supply > 90%" :> "SELECT name, symbol FROM cryptocurrencies WHERE (circulating_supply / total_supply) > 0.9"
         @@ "Q3: Within 10% of ATH" :> "SELECT name, current_price AS Price_INR FROM cryptocurrencies WHERE current_price >= (ath * 0.9)"
         @@ "Q4: Avg Rank (Vol > $1B)" :> "SELECT AVG(market_cap_rank) AS Avg_Rank FROM cryptocurrencies WHERE total_volume > 1000000000"
         @@ "Q5: High Value Assets" :> "SELECT name, current_price AS Price_INR FROM cryptocurrencies WHERE current_price > 1000"
         @@ "Q6: Most Recent Entry" :> "SELECT name, symbol FROM cryptocurrencies ORDER BY id DESC LIMIT 1"))
 @@ ("2. Daily Trends" :>
        (   "Q7: Highest BTC (INR)" :> "SELECT MAX(price_usd) AS Peak_Price_INR FROM crypto_prices WHERE coin_id='bitcoin'"
         @@ "Q8: ETH Average (INR)" :> "SELECT AVG(price_usd) AS Avg_Price_INR FROM crypto_prices WHERE coin_id='ethereum'"
         @@ "Q9: BTC Jan 2025 Trend" :> "SELECT date, price_usd AS Price_INR FROM crypto_prices WHERE coin_id='bitcoin' AND date LIKE '2025-01%'"
         @@ "Q10: BTC % Price Change" :> "SELECT (MAX(price_usd)-MIN(price_usd))/MIN(price_usd)*100 AS Pct_Change FROM crypto_prices WHERE coin_id='bitcoin'"
         @@ "Q11: Price Extremes (INR)" :> "SELECT coin_id, MIN(price_usd) AS Min_Price_INR, MAX(price_usd) AS Max_Price_INR FROM crypto_prices GROUP BY coin_id"
         @@ "Q12: Lowest Historical BTC" :> "SELECT MIN(price_usd) AS Hist_Low_INR FROM crypto_prices WHERE coin_id='bitcoin'"))
 @@ ("3. Oil Analysis" :>
        (   "Q13: Highest Oil Peak" :> "SELECT MAX(price_usd) AS Peak_Oil_INR FROM oil_prices"
         @@ "Q14: Avg Oil Yearly" :> "SELECT YEAR(date) AS Year, AVG(price_usd) AS Avg_Oil_INR FROM oil_prices GROUP BY Year"
         @@ "Q15: 2020 Crash Trend" :> "SELECT date, price_usd AS Price_INR FROM oil_prices WHERE date BETWEEN '2020-03-01' AND '2020-04-30'"
         @@ "Q16: Yearly Price Range" :> "SELECT YEAR(date) AS Year, (MAX(price_usd)-MIN(price_usd)) AS Range_INR FROM oil_prices GROUP BY Year"
         @@ "Q17: Days Above $80" :> "SELECT COUNT(*) AS High_Price_Days FROM oil_prices WHERE price_usd > 80"
         @@ "Q18: Q1 2025 Average" :> "SELECT AVG(price_usd) AS Q1_Avg_INR FROM oil_prices WHERE date BETWEEN '2025-01-01' AND '2025-03-31'"))
 @@ ("4. Stock Indices" :>
        (   "Q19: NASDAQ Peak (INR)" :> "SELECT MAX(close) AS Peak_INR FROM stock_prices WHERE ticker='^IXIC'"
         @@ "Q20: Top 5 Volatility (S&P)" :> "SELECT date, (high-low) AS Swing_INR FROM stock_prices WHERE ticker='^GSPC' ORDER BY Swing_INR DESC LIMIT 5"
         @@ "Q21: Nifty Avg Vol 2024" :> "SELECT AVG(volume) AS Avg_Vol FROM stock_prices WHERE ticker='^NSEI' AND YEAR(date)=2024"
         @@ "Q22: Monthly Index Price" :> "SELECT ticker, MONTH(date) as Month, AVG(close) AS Avg_Close_INR FROM stock_prices GROUP BY ticker, Month"
         @@ "Q23: S&P Row Count" :> "SELECT COUNT(*) FROM stock_prices WHERE ticker='^GSPC'"
         @@ "Q24: Index Historical Lows" :> "SELECT ticker, MIN(low) AS Low_Price_INR FROM stock_prices GROUP BY ticker"))
 @@ ("5. Join Queries" :>
        (   "Q25: BTC vs Oil (2025)" :> "SELECT AVG(c.price_usd) AS BTC_INR, AVG(o.price_usd) AS Oil_INR FROM crypto_prices c JOIN oil_prices o ON c.date=o.date WHERE YEAR(c.date)=2025"
         @@ "Q26: BTC vs Nifty (Synced)" :> "SELECT c.date, c.price_usd AS BTC_INR, s.close AS Nifty_INR FROM crypto_prices c JOIN stock_prices s ON c.date=s.date WHERE c.coin_id='bitcoin' AND s.ticker='^NSEI' ORDER BY c.date DESC LIMIT 10"
         @@ "Q27: Multi-Join Snapshot" :> "SELECT c.date AS Entry_Date, c.price_usd AS BTC_Price_INR, o.price_usd AS Oil_Price_INR, s.close AS Stock_Price_INR FROM crypto_prices c JOIN oil_prices o ON c.date=o.date JOIN stock_prices s ON s.date=c.date LIMIT 10"
         @@ "Q28: Oil Influence on Nifty" :> "SELECT o.date, o.price_usd AS Oil_Price_INR, s.close AS Nifty_Price_INR FROM oil_prices o JOIN stock_prices s ON o.date=s.date WHERE o.price_usd > 90 LIMIT 5"
         @@ "Q29: BTC vs NASDAQ Correlation" :> "SELECT c.date, c.price_usd AS BTC_Price_INR, s.close AS NASDAQ_Price_INR FROM crypto_prices c JOIN stock_prices s ON c.date=s.date WHERE s.ticker='^IXIC' LIMIT 5"
         @@ "Q30: Global Market Extremes" :> "SELECT MIN(c.price_usd) AS Min_BTC_INR, MAX(s.close) AS Max_Stock_INR FROM crypto_prices c JOIN stock_prices s ON c.date=s.date"))

\* query_map[cat][selected_q]: plain dictionary indexing.  A key that is
\* not in the dictionary raises Python's KeyError.
Lookup(c, q) ==
    IF c \notin DOMAIN query_map THEN "KeyError"
    ELSE IF q \notin DOMAIN query_map[c] THEN "KeyError"
    ELSE query_map[c][q]

\* The ORDER BY clause of a catalog query, as far as dates go: Q26 sorts by
\* c.date DESC; every other query has no ORDER BY or sorts by another
\* column, which leaves the order of the dates to the store.
OrderByDate(c, q) ==
    IF c = "5. Join Queries" /\ q = "Q26: BTC vs Nifty (Synced)"
    THEN "DESC" ELSE "NONE"

Categories == DOMAIN query_map

QueryKeys == UNION {DOMAIN query_map[c] : c \in Categories}

\* The catalog lookup alone, on keys it holds and on keys it does not.
InitCatalog ==
    /\ pc = "lookup"
    /\ cat \in Categories \cup {"bogus"}
    /\ selected_q \in QueryKeys \cup {"bogus"}
    /\ sql = "none"
    /\ store = <<>> /\ page = "none" /\ d_range = <<>> /\ order = "NONE"
    /\ fault = "none"
    /\ raw = NoFrame /\ synced = NoFrame /\ df = NoFrame /\ again = NoFrame
    /\ rendered = FALSE /\ success = FALSE /\ open = 0 /\ peak = 0

Resolve ==
    /\ pc = "lookup"
    /\ sql' = Lookup(cat, selected_q)
    /\ pc' = "resolved"
    /\ UNCHANGED <<store, page, d_range, order, fault, raw, synced, df, again,
                   rendered, success, open, peak, cat, selected_q>>

NextCatalog == Resolve

SpecCatalog == InitCatalog /\ [][NextCatalog]_vars

Dates == 1..MaxDate

JoinColumns == <<"Entry_Date", "BTC_INR">>

StoreRows == [Entry_Date : Dates, BTC_INR : Cells]

DateAscending(rows) ==
    \A i \in 1..(Len(rows) - 1) : rows[i].Entry_Date <= rows[i + 1].Entry_Date

\* The rows a query joins to, at most n of them.  crypto_prices holds one
\* row per coin and day and the overview join does not filter on coin_id,
\* so a date may repeat.  The store is a bag; it is written in date order.
IsStore(s, n) ==
    \E k \in 0..n : \E t \in [1..k -> StoreRows] : DateAscending(t) /\ s = t

Orderings(n) ==
    {p \in [1..n -> 1..n] : \A i, j \in 1..n : p[i] = p[j] => i = j}

Reverse(rows) == [i \in 1..Len(rows) |-> rows[Len(rows) + 1 - i]]

\* pd.read_sql(query, conn): the frames the store may answer with.  ORDER BY
\* date ASC returns the rows in date order and DESC in the reverse order
\* (rows of equal date in the order the store holds them, which Init leaves
\* open); without ORDER BY on the date the store returns them in any order.
read_sql(ord) ==
    {[columns |-> JoinColumns, rows |-> r] :
        r \in CASE ord = "ASC"  -> {store}
                 [] ord = "DESC" -> {Reverse(store)}
                 [] OTHER        -> {[i \in 1..Len(store) |-> store[p[i]]] :
                                        p \in Orderings(Len(store))}}

\* The same rows under the column names a query selects them as.
Renamed(frame, cols) ==
    [columns |-> cols,
     rows    |-> [i \in 1..Len(frame.rows) |->
                    [c \in {cols[k] : k \in 1..Len(cols)} |->
                        IF c = cols[1] /\ Len(cols) = 2
                        THEN frame.rows[i].Entry_Date
                        ELSE frame.rows[i].BTC_INR]]]

\* ------------------------------------------------------------- Dashboard
\* pd.to_datetime: a day becomes the timestamp of its midnight, in hours.
to_datetime(d) == d * 24

\* df['Entry_Date'] = pd.to_datetime(df['Entry_Date'])
with_datetime(frame) ==
    [frame EXCEPT !.rows =
        [i \in 1..Len(frame.rows) |->
            [frame.rows[i] EXCEPT !.Entry_Date = to_datetime(@)]]]

\* Mutant: the end of the range is left out (< end).
DateFilter_open_end(frame, range) ==
    IF Len(range) = 2
    THEN [frame EXCEPT !.rows =
            SelectSeq(frame.rows,
                      LAMBDA r : /\ r.Entry_Date >= to_datetime(range[1])
                                 /\ r.Entry_Date < to_datetime(range[2]))]
    ELSE frame

\* if len(d_range) == 2: df = df[(Entry_Date >= start) & (Entry_Date <= end)]
DateFilter(frame, range) ==
    IF Len(range) = 2
    THEN [frame EXCEPT !.rows =
            SelectSeq(frame.rows,
                      LAMBDA r : /\ r.Entry_Date >= to_datetime(range[1])
                                 /\ r.Entry_Date <= to_datetime(range[2]))]
    ELSE frame

\* Mutant: the range is applied first and the fill runs on what is left.
MarketOverview_filter_first(frame, range) ==
    Synchronizer(DateFilter(with_datetime(frame), range))

\* The overview's frame: dates converted, gaps filled, then the range.
MarketOverview(frame, range) ==
    DateFilter(Synchronizer(with_datetime(frame)), range)

OverviewQuery ==
    "SELECT c.date AS Entry_Date, c.price_usd AS BTC_INR, o.price_usd AS Oil_INR, s.close AS SP500_INR, n.close AS NIFTY_INR FROM crypto_prices c JOIN oil_prices o ON c.date = o.date JOIN stock_prices s ON c.date = s.date AND s.ticker = '^GSPC' JOIN stock_prices n ON c.date = n.date AND n.ticker = '^NSEI' ORDER BY c.date ASC"

CorrelationQuery ==
    "SELECT c.price_usd AS BTC_INR, o.price_usd AS Oil_INR, s.close AS Stock_INR FROM crypto_prices c JOIN oil_prices o ON c.date=o.date JOIN stock_prices s ON s.date=c.date WHERE c.coin_id='bitcoin'"

Coins == {"bitcoin", "ethereum", "tether", "solana", "binancecoin"}

\* What st.sidebar.date_input may return: no date, one date, or two.
Ranges ==
    {<<>>} \cup {<<a>> : a \in Dates} \cup {<<a, b>> : a, b \in Dates}

Faults == {"none", "connect", "query"}

\* conn = get_db_connection(); df = pd.read_sql(query, conn); conn.close()
\* get_db_connection raising leaves nothing open; pd.read_sql raising leaves
\* the script before conn.close(), which is then never reached.
Fetch(fail, ord) ==
    /\ fail = "query" => open < MaxOpen
    /\ fault' = fail
    /\ order' = ord
    /\ CASE fail = "connect" ->
              raw' = NoFrame /\ open' = open /\ peak' = open
         [] fail = "query" ->
              raw' = NoFrame /\ open' = open + 1 /\ peak' = open + 1
         [] OTHER ->
              raw' \in read_sql(ord) /\ open' = open /\ peak' = open + 1

\* An exception leaves the script: Streamlit shows it and renders no more.
Aborted ==
    /\ pc' = "error"
    /\ synced' = NoFrame
    /\ df' = NoFrame
    /\ rendered' = FALSE

\* page == "Dashboard".  The asset multiselect only picks between the chart
\* and a warning and is left out; the frame is the same either way.
Dashboard(fail, range) ==
    /\ pc = "idle"
    /\ page' = "Dashboard"
    /\ d_range' = range
    /\ sql' = OverviewQuery
    /\ Fetch(fail, "ASC")
    /\ success' = FALSE
    /\ IF fail # "none" THEN Aborted
       ELSE /\ pc' = "done"
            /\ IF raw'.rows = <<>>
               THEN synced' = NoFrame /\ df' = raw' /\ rendered' = FALSE
               ELSE /\ synced' = Synchronizer(with_datetime(raw'))
                    /\ df' = MarketOverview(raw', range)
                    /\ rendered' = TRUE
    /\ UNCHANGED <<store, again, cat, selected_q>>

\* Mutant: st.success is called before pd.read_sql.
st_success_early(fail) == fail # "connect"

\* st.success(...) follows pd.read_sql and conn.close().
st_success(fail) == fail = "none"

\* page == "SQL Runner", with "Run Analysis" pressed
RunQuery(fail, c, q) ==
    /\ pc = "idle"
    /\ page' = "SQL Runner"
    /\ cat' = c
    /\ selected_q' = q
    /\ sql' = Lookup(c, q)
    /\ Fetch(fail, OrderByDate(c, q))
    /\ success' = st_success(fail)
    /\ IF fail # "none" THEN Aborted
       ELSE /\ pc' = "done"
            /\ synced' = Synchronizer(raw')
            /\ df' = synced'
            /\ rendered' = TRUE
    /\ UNCHANGED <<store, d_range, again>>

\* page == "Top 5 Analysis"
AssetDetail(fail, coin) ==
    /\ pc = "idle"
    /\ page' = "Top 5 Analysis"
    /\ sql' = <<"SELECT date, price_usd AS Price_INR FROM crypto_prices WHERE coin_id='",
                coin, "' ORDER BY date">>
    /\ Fetch(fail, "ASC")
    /\ success' = FALSE
    /\ IF fail # "none" THEN Aborted
       ELSE /\ pc' = "done"
            /\ synced' = NoFrame
            /\ df' = Renamed(raw', <<"date", "Price_INR">>)
            /\ rendered' = (raw'.rows # <<>>)
    /\ UNCHANGED <<store, d_range, again, cat, selected_q>>

\* page == "Correlation"
Correlation(fail) ==
    /\ pc = "idle"
    /\ page' = "Correlation"
    /\ sql' = CorrelationQuery
    /\ Fetch(fail, "NONE")
    /\ success' = FALSE
    /\ IF fail # "none" THEN Aborted
       ELSE /\ pc' = "done"
            /\ synced' = NoFrame
            /\ df' = Renamed(raw', <<"BTC_INR">>)
            /\ rendered' = (raw'.rows # <<>>)
    /\ UNCHANGED <<store, d_range, again, cat, selected_q>>

\* The script run is over; the next interaction runs the script afresh and
\* builds its frames anew.  A connection left open stays open.
EndRender ==
    /\ pc \in {"done", "error"}
    /\ pc' = "idle"
    /\ page' = "none"
    /\ d_range' = <<>>
    /\ order' = "NONE"
    /\ fault' = "none"
    /\ raw' = NoFrame
    /\ synced' = NoFrame
    /\ df' = NoFrame
    /\ rendered' = FALSE
    /\ success' = FALSE
    /\ peak' = 0
    /\ cat' = "none"
    /\ selected_q' = "none"
    /\ sql' = "none"
    /\ UNCHANGED <<store, open, again>>

Idle ==
    /\ pc = "idle"
    /\ page = "none"
    /\ d_range = <<>>
    /\ order = "NONE"
    /\ fault = "none"
    /\ raw = NoFrame
    /\ synced = NoFrame
    /\ df = NoFrame
    /\ again = NoFrame
    /\ rendered = FALSE
    /\ success = FALSE
    /\ open = 0
    /\ peak = 0
    /\ cat = "none"
    /\ selected_q = "none"
    /\ sql = "none"

\* The catalog queries that select a date column, one of each date order.
DatedChoices ==
    {<<"5. Join Queries", "Q26: BTC vs Nifty (Synced)">>,
     <<"5. Join Queries", "Q27: Multi-Join Snapshot">>}

\* What the two selectboxes can hold: a topic and a query of that topic.
Choices == UNION {{<<c, q>> : q \in DOMAIN query_map[c]} : c \in Categories}

\* The two pages that run the Synchronizer, over a store that answers every
\* query.
Init == Idle /\ IsStore(store, MaxRows)

Next ==
    \/ \E range \in Ranges : Dashboard("none", range)
    \/ \E cq \in DatedChoices : RunQuery("none", cq[1], cq[2])
    \/ EndRender

Spec == Init /\ [][Next]_vars

\* All four pages, over a store that may refuse a connection or fail a query.
InitFail == Idle /\ IsStore(store, FailRows)

NextFail ==
    \/ \E fail \in Faults, range \in Ranges : Dashboard(fail, range)
    \/ \E fail \in Faults, cq \in Choices : RunQuery(fail, cq[1], cq[2])
    \/ \E fail \in Faults, coin \in Coins : AssetDetail(fail, coin)
    \/ \E fail \in Faults : Correlation(fail)
    \/ EndRender

SpecFail == InitFail /\ [][NextFail]_vars

\* ------------------------------------------------- claims C4, C5, C8, C10
\* The Synchronizer ran in the last handler.
Synchronized == pc = "done" /\ synced.columns # <<>>

\* The date the Synchronizer was given for row i: the Dashboard converts
\* the dates first, the SQL Runner does not.
DateGiven(i) ==
    IF page = "Dashboard" THEN 24 * raw.rows[i].Entry_Date
    ELSE raw.rows[i].Entry_Date

\* C4: the Synchronizer's output has its input's number of rows, its
\* columns in the same order and its date in every row position; a
\* zero-row frame comes out as a zero-row frame of the same columns.
C4_ShapePreserved ==
    Synchronized =>
        /\ synced.columns = raw.columns
        /\ Len(synced.rows) = Len(raw.rows)
        /\ \A i \in 1..Len(raw.rows) :
              /\ DOMAIN synced.rows[i] = DOMAIN raw.rows[i]
              /\ synced.rows[i].Entry_Date = DateGiven(i)

\* A three-row result of the SQL Runner, one cell of it filled.
C4_Witness ==
    /\ Synchronized
    /\ page = "SQL Runner"
    /\ Len(raw.rows) = 3
    /\ raw.rows[2].BTC_INR = NA
    /\ synced.rows[2].BTC_INR = 2

\* The rows of the joined frame whose day lies in the picked range.
Kept ==
    {i \in 1..Len(raw.rows) :
        d_range[1] <= raw.rows[i].Entry_Date /\ raw.rows[i].Entry_Date <= d_range[2]}

NthKept(k) == CHOOSE i \in Kept : Cardinality({j \in Kept : j <= i}) = k

\* C5: with a two-date range the overview returns exactly the rows of the
\* synchronized frame dated start <= d <= end, in their order; with no
\* complete range it returns every row of the synchronized frame.
C5_DateRange ==
    (pc = "done" /\ page = "Dashboard" /\ rendered) =>
        IF Len(d_range) = 2
        THEN /\ Len(df.rows) = Cardinality(Kept)
             /\ \A k \in 1..Len(df.rows) : df.rows[k] = synced.rows[NthKept(k)]
        ELSE df = synced

\* Days 1, 2, 3 with the range [2, 3]: the rows of days 2 and 3 are returned.
C5_Witness ==
    /\ pc = "done" /\ page = "Dashboard" /\ rendered
    /\ d_range = <<2, 3>>
    /\ Len(raw.rows) = 3
    /\ raw.rows[1].Entry_Date = 1 /\ raw.rows[2].Entry_Date = 2
    /\ raw.rows[3].Entry_Date = 3
    /\ Len(df.rows) = 2
    /\ df.rows[1].Entry_Date = 48 /\ df.rows[2].Entry_Date = 72

\* C8: whenever the Synchronizer is applied, the rows it is given are in
\* strictly ascending date order.
C8_StrictlyAscending ==
    Synchronized =>
        \A i \in 1..(Len(raw.rows) - 1) :
            raw.rows[i].Entry_Date < raw.rows[i + 1].Entry_Date

\* The value the fill over the whole joined frame gives row i of column c.
WholeFrameFill(c, i) ==
    IF ~IsMissing(raw.rows[i][c]) THEN raw.rows[i][c]
    ELSE IF Observed(raw.rows, c, i) # {}
         THEN raw.rows[Nearest(Observed(raw.rows, c, i))][c]
         ELSE 0

\* C10: the overview fills before it filters: a returned row whose cell was
\* missing holds the last value observed in its column on any earlier date
\* of the whole joined frame, also one before the start of the range, and
\* zero only if the column has no value up to that row.
C10_FillBeforeFilter ==
    (pc = "done" /\ page = "Dashboard" /\ rendered /\ Len(d_range) = 2) =>
        /\ Len(df.rows) = Cardinality(Kept)
        /\ \A k \in 1..Len(df.rows) :
              df.rows[k].BTC_INR = WholeFrameFill("BTC_INR", NthKept(k))

\* Day 1 holds 2, day 2 holds nothing; the range [2, 2] returns day 2 as 2.
C10_Witness ==
    /\ pc = "done" /\ page = "Dashboard" /\ rendered
    /\ d_range = <<2, 2>>
    /\ Len(raw.rows) = 2
    /\ raw.rows[1].Entry_Date = 1 /\ raw.rows[1].BTC_INR = 2
    /\ raw.rows[2].Entry_Date = 2 /\ raw.rows[2].BTC_INR = NA
    /\ Len(df.rows) = 1
    /\ df.rows[1].BTC_INR = 2

\* ------------------------------------------------------ claims C7 and C9
\* C7: every operation closes the connection it opened on every exit path,
\* the failing query included; never is more than one connection open, and
\* none is open when the next interaction begins.
C7_ConnectionScoped ==
    /\ pc \in {"idle", "done", "error"} => open = 0
    /\ peak <= 1

\* C9: a refused connection or a failed query ends the interaction in a
\* visible error with no frame and no success indicator; the success
\* indicator is shown only after the query succeeded; a result without
\* rows is not an error.
C9_FailureSurfaced ==
    /\ fault # "none" =>
          /\ pc = "error"
          /\ df = NoFrame
          /\ ~rendered
          /\ ~success
    /\ success => (fault = "none" /\ pc = "done" /\ raw.columns # <<>>)
    /\ pc = "error" => fault # "none"
    /\ (pc = "done" /\ raw.rows = <<>>) => fault = "none"

\* The SQL Runner's query failed.
C9_Witness ==
    /\ page = "SQL Runner"
    /\ fault = "query"
    /\ pc = "error"
    /\ ~success

====
